---- MODULE Spec2Model ----
(***************************************************************************)
(* A model of marmolejo/bittorrent-client: the Client of index.js (the     *)
(* revision with the readiness barrier), its identifier resolution         *)
(* Client.toInfoHash, and the PeerDiscovery coordinator of                 *)
(* lib/peer-discovery.js.                                                  *)
(*                                                                         *)
(* JavaScript values are records [t |-> tag, v |-> sequence]: a string is  *)
(* the sequence of its characters, a Buffer the sequence of its bytes, a   *)
(* parsed torrent the object carrying its infoHash string.  null and       *)
(* undefined are both the empty sequence Null.                             *)
(***************************************************************************)
EXTENDS Integers, Sequences, FiniteSets, TLC

\* ------------------------------------------------------------------ bounds

\* Number of distinct torrents (metadata files) the environment knows.
NumFiles == 2
\* Number of add calls a behaviour may issue.
MaxAdds == 3
\* Number of times client.destroy may be called.
MaxDestroys == 2
\* Number of events of one kind (tracker error, peer) a behaviour may deliver.
MaxEvents == 2
\* Number of setTorrent calls, and of stop calls, made on one PeerDiscovery.
MaxCalls == 2

\* -------------------------------------------------------- program constants

\* Length of an info hash held in a Buffer.
HashBytes == 20
\* Length of an info hash written in hex.
HexLen == 40
\* Length of an info hash written in base 32.
Base32Len == 32

\* ------------------------------------------------------------ JS strings

Null == <<>>

HexDigits == <<"0","1","2","3","4","5","6","7","8","9","a","b","c","d","e","f">>
HexUpper == <<"0","1","2","3","4","5","6","7","8","9","A","B","C","D","E","F">>
Base32Alphabet ==
  <<"A","B","C","D","E","F","G","H","I","J","K","L","M","N","O","P",
    "Q","R","S","T","U","V","W","X","Y","Z","2","3","4","5","6","7">>

\* 'magnet:?xt=urn:btih:'
MagnetPrefix ==
  <<"m","a","g","n","e","t",":","?","x","t","=","u","r","n",":","b","t","i","h",":">>
\* 'magnet:'
MagnetScheme == <<"m","a","g","n","e","t",":">>
\* 'magnet:?'
MagnetSep == <<"m","a","g","n","e","t",":","?">>
\* 'urn:btih:'
UrnBtih == <<"u","r","n",":","b","t","i","h",":">>

Range(s) == {s[i] : i \in DOMAIN s}

\* F applied to the value of e, which is computed once.
Let(F(_), e) == CHOOSE r \in {F(x) : x \in {e}} : TRUE

StartsWith(s, p) == Len(s) >= Len(p) /\ SubSeq(s, 1, Len(p)) = p

\* String.prototype.indexOf, 1-based, 0 when absent.
IndexOf(s, p) ==
  LET hits == {i \in 1..(Len(s) - Len(p) + 1) : SubSeq(s, i, i + Len(p) - 1) = p}
  IN IF hits = {} THEN 0 ELSE CHOOSE i \in hits : \A j \in hits : i <= j

\* String.prototype.split on a separator string.
RECURSIVE Split(_, _)
Split(str, sep) ==
  Let(LAMBDA s :
        Let(LAMBDA i :
              IF i = 0 THEN <<s>>
              ELSE <<SubSeq(s, 1, i - 1)>>
                   \o Split(SubSeq(s, i + Len(sep), Len(s)), sep),
            IndexOf(s, sep)),
      str)

\* Buffer.prototype.toString('hex'): two lowercase digits per byte.
HexEncode(bytes) ==
  Let(LAMBDA b :
        [k \in 1..(2 * Len(b)) |->
           HexDigits[(IF k % 2 = 1 THEN b[(k + 1) \div 2] \div 16
                                   ELSE b[(k + 1) \div 2] % 16) + 1]],
      bytes)

IsHexChar(c) == \E i \in 1..16 : HexDigits[i] = c \/ HexUpper[i] = c

HexVal(c) == (CHOOSE i \in 1..16 : HexDigits[i] = c \/ HexUpper[i] = c) - 1

\* new Buffer(str, 'hex'): digits of either case; Null when the string is not hex.
HexDecode(chars) ==
  Let(LAMBDA s :
        IF Len(s) % 2 # 0 \/ \E i \in DOMAIN s : ~IsHexChar(s[i])
        THEN Null
        ELSE [i \in 1..(Len(s) \div 2) |->
                16 * HexVal(s[2 * i - 1]) + HexVal(s[2 * i])],
      chars)

\* The bits of v, most significant first, as a sequence of the given width.
Bits(v, width) ==
  [k \in 1..width |->
     IF width - k = 0 THEN v % 2
     ELSE IF width - k = 1 THEN (v \div 2) % 2
     ELSE IF width - k = 2 THEN (v \div 4) % 2
     ELSE IF width - k = 3 THEN (v \div 8) % 2
     ELSE IF width - k = 4 THEN (v \div 16) % 2
     ELSE IF width - k = 5 THEN (v \div 32) % 2
     ELSE IF width - k = 6 THEN (v \div 64) % 2
     ELSE (v \div 128) % 2]

\* The bits of every element of s, one after the other.
BitString(s, width) ==
  [k \in 1..(width * Len(s)) |->
     Bits(s[((k - 1) \div width) + 1], width)[((k - 1) % width) + 1]]

Base32Val(c) == (CHOOSE i \in 1..32 : Base32Alphabet[i] = c) - 1

\* base32.decode: five bits per character, most significant first.
Base32Decode(chars) ==
  Let(LAMBDA s :
        IF \E i \in DOMAIN s : \A k \in 1..32 : Base32Alphabet[k] # s[i]
        THEN Null
        ELSE Let(LAMBDA bits :
                   [i \in 1..(Len(bits) \div 8) |->
                      bits[8*i - 7] * 128 + bits[8*i - 6] * 64 + bits[8*i - 5] * 32
                      + bits[8*i - 4] * 16 + bits[8*i - 3] * 8 + bits[8*i - 2] * 4
                      + bits[8*i - 1] * 2 + bits[8*i]],
                 BitString([i \in DOMAIN s |-> Base32Val(s[i])], 5)),
      chars)

\* The inverse, used to write an info hash in base 32 (an input form).
Base32Encode(bytes) ==
  Let(LAMBDA bits :
        [j \in 1..(Len(bits) \div 5) |->
           Base32Alphabet[bits[5*j - 4] * 16 + bits[5*j - 3] * 8 + bits[5*j - 2] * 4
                          + bits[5*j - 1] * 2 + bits[5*j] + 1]],
      BitString(bytes, 8))

\* ------------------------------------------------------------ JS values

JsString(s) == [t |-> "string", v |-> s]
JsBuffer(b) == [t |-> "buffer", v |-> b]
JsParsed(h) == [t |-> "object", v |-> h]
JsOther == [t |-> "other", v |-> Null]

\* ------------------------------------------------- magnet-uri, parse-torrent

\* magnet(uri) of the magnet-uri module: the text after 'magnet:?' is split on
\* '&' into key=value pairs; the xt value names the info hash, 40 hex
\* characters (normalised through a Buffer) or 32 base-32 characters.
MagnetData(uri) ==
  Let(LAMBDA parts : IF Len(parts) < 2 THEN Null ELSE parts[2],
      Split(uri, MagnetSep))

MagnetXt(uri) ==
  Let(LAMBDA data :
        IF data = Null THEN Null
        ELSE Let(LAMBDA keyvals :
                   Let(LAMBDA xts :
                         IF xts = {} THEN Null
                         ELSE keyvals[CHOOSE i \in xts : \A j \in xts : j <= i][2],
                       {i \in DOMAIN keyvals :
                          Len(keyvals[i]) = 2 /\ keyvals[i][1] = <<"x", "t">>}),
                 Let(LAMBDA params : [i \in DOMAIN params |-> Split(params[i], <<"=">>)],
                     Split(data, <<"&">>))),
      MagnetData(uri))

\* The info hash in hex of a decoded Buffer; Null when decoding failed.
HexOrNull(bytes) == Let(LAMBDA b : IF b = Null THEN Null ELSE HexEncode(b), bytes)

magnet(uri) ==
  Let(LAMBDA xt :
        IF StartsWith(xt, UrnBtih) /\ Len(xt) - Len(UrnBtih) >= HexLen
        THEN [infoHash |->
                HexOrNull(HexDecode(SubSeq(xt, Len(UrnBtih) + 1, Len(UrnBtih) + HexLen)))]
        ELSE IF StartsWith(xt, UrnBtih) /\ Len(xt) - Len(UrnBtih) >= Base32Len
        THEN [infoHash |->
                HexOrNull(Base32Decode(SubSeq(xt, Len(UrnBtih) + 1,
                                              Len(UrnBtih) + Base32Len)))]
        ELSE [infoHash |-> Null],
      MagnetXt(uri))

RECURSIVE SumSeq(_)
SumSeq(s) == IF s = <<>> THEN 0 ELSE Head(s) + SumSeq(Tail(s))

\* Stands for SHA-1: twenty bytes determined by the bytes hashed.
Sha1(bytes) ==
  Let(LAMBDA b :
        Let(LAMBDA sum :
              [i \in 1..HashBytes |-> (sum + i * b[((i - 1) % Len(b)) + 1]) % 256],
            SumSeq(b)),
      bytes)

\* 'd4:info': a torrent file is a bencoded dictionary holding an info dictionary.
InfoKey == <<100, 52, 58, 105, 110, 102, 111>>

\* The bytes of a .torrent file: 'd4:infod6:lengthi<f>e4:name1:<f>ee'.
TorrentFile(f) ==
  InfoKey \o <<100, 54, 58, 108, 101, 110, 103, 116, 104, 105, 48 + f, 101,
               52, 58, 110, 97, 109, 101, 49, 58, 96 + f, 101, 101>>

\* A buffer that is neither twenty bytes long nor a bencoded dictionary.
Garbage == <<1, 2, 3>>

IsTorrentFile(b) ==
  Len(b) > Len(InfoKey) + 2 /\ StartsWith(b, InfoKey) /\ b[Len(b)] = 101

\* parseTorrent(buf).infoHash: the digest of the info dictionary in hex; Null
\* stands for the exception parse-torrent raises on anything else.
parseTorrent(buf) ==
  Let(LAMBDA b :
        IF IsTorrentFile(b)
        THEN [infoHash |-> HexEncode(Sha1(SubSeq(b, Len(InfoKey) + 1, Len(b) - 1)))]
        ELSE [infoHash |-> Null],
      buf)

\* ------------------------------------------------------- Client.toInfoHash

\* The info-hash branch of a Buffer taken on 40 bytes instead of 20.
toInfoHashWrongLength(torrentId) ==
  Let(LAMBDA id :
        IF id.t = "string"
        THEN magnet(IF (~StartsWith(id.v, MagnetScheme) /\ Len(id.v) = HexLen)
                         \/ Len(id.v) = Base32Len
                    THEN MagnetPrefix \o id.v ELSE id.v).infoHash
        ELSE IF id.t = "buffer"
        THEN IF Len(id.v) = HexLen THEN HexEncode(id.v) ELSE parseTorrent(id.v).infoHash
        ELSE IF id.t = "object" /\ id.v # Null THEN id.v
        ELSE Null,
      torrentId)

toInfoHash(torrentId) ==
  Let(LAMBDA id :
        IF id.t = "string"
        THEN magnet(IF (~StartsWith(id.v, MagnetScheme) /\ Len(id.v) = HexLen)
                         \/ Len(id.v) = Base32Len
                    THEN MagnetPrefix \o id.v
                    ELSE id.v).infoHash
        ELSE IF id.t = "buffer"
        THEN IF Len(id.v) = HashBytes
             THEN HexEncode(id.v)
             ELSE parseTorrent(id.v).infoHash
        ELSE IF id.t = "object" /\ id.v # Null
        THEN id.v
        ELSE Null,
      torrentId)

\* ------------------------------------------------- identifiers of the inputs

Files == 1..NumFiles

\* The five forms the test 'Test supported torrentInfo types' passes to add.
Kinds == {"hex", "buffer", "magnet", "file", "parsed"}
\* Further inputs: base-32 text, upper-case hex, a malformed buffer, a number.
OtherKinds == {"base32", "HEX", "garbage", "other"}

\* leavesTorrent = parseTorrent(leaves)
leavesTorrent(f) == parseTorrent(TorrentFile(f))

UpperCase(str) ==
  Let(LAMBDA s :
        [i \in DOMAIN s |->
           IF \E k \in 1..16 : HexDigits[k] = s[i]
           THEN HexUpper[CHOOSE k \in 1..16 : HexDigits[k] = s[i]] ELSE s[i]],
      str)

\* The JavaScript value an identifier [kind, file] denotes.
Repr(id) ==
  Let(LAMBDA h :
        CASE id.kind = "hex" -> JsString(h)
          [] id.kind = "buffer" -> JsBuffer(HexDecode(h))
          [] id.kind = "magnet" -> JsString(MagnetPrefix \o h)
          [] id.kind = "file" -> JsBuffer(TorrentFile(id.file))
          [] id.kind = "parsed" -> JsParsed(h)
          [] id.kind = "base32" -> JsString(Base32Encode(HexDecode(h)))
          [] id.kind = "HEX" -> JsString(UpperCase(h))
          [] id.kind = "garbage" -> JsBuffer(Garbage)
          [] OTHER -> JsOther,
      leavesTorrent(id.file).infoHash)

Id(kind, f) == [kind |-> kind, file |-> f]

Ids == {Id(k, f) : k \in Kinds \cup OtherKinds, f \in Files}
\* The identifiers add is called with (a string and a Buffer), and those remove
\* is called with (other forms of the same torrents, and a malformed one).
AddIds == {Id(k, f) : k \in {"magnet", "file"}, f \in Files}
RemoveIds == {Id(k, f) : k \in {"hex", "buffer", "parsed", "garbage"}, f \in Files}

\* Client.toInfoHash over the identifiers of the model, computed once.
toInfoHashOf == [id \in Ids |-> toInfoHash(Repr(id))]

\* leavesTorrent.infoHash of every file, computed once.
ContentId == [f \in Files |-> leavesTorrent(f).infoHash]

\* ------------------------------------------------------------------- state

VARIABLES
  ready,          \* client.ready
  torrentPort,    \* client.torrentPort: "unset", "fixed" (opts) or "found"
  dht,            \* client.dht: [exists, destroyCalls], with the lookups in flight
                  \* per torrent, the announces in flight and the 'peer' events
                  \* it has emitted: [lookups, announces, peers]
  boot,           \* the constructor's parallel(tasks, cb): [port, dht, pending, cb]
  emitted,        \* events emitted so far: [ready, error] of the client,
                  \* [announce] of its torrents
  readyListeners, \* the once('ready') listeners add registered, oldest first
  calls,          \* number of add calls made so far
  torrents,       \* client.torrents
  removing,       \* torrent.destroy(cb) calls in flight that remove's caller started
  joins,          \* one parallel(tasks, cb) per destroy call: [tasks, pending, cb,
                  \* err], with the number of entries registered at the call and
                  \* of torrent.destroy(cb) calls running that hold its callbacks
  thrown,         \* the exception the last API call raised, or "none"
  returned,       \* what the last add call returned to its caller, or "none"
  lastRatio,      \* the last value read from client.ratio: [read, value]
  lastPeer,       \* the last 'peer' of the client's DHT: [seen, file, to], to
                  \* the add call of the entry addPeer was called on, 0 for none
  teardowns,      \* per entry (by the number of its add call) the number of
                  \* torrent.destroy(cb) calls made on it
  resolved        \* the last call of Client.toInfoHash on its own: [done, id, hash]

VARIABLES
  pd,             \* the PeerDiscovery object: [new, dht, externalDHT, tracker,
                  \*   torrentPort, infoHash, torrent]
  pdDht,          \* its DHT: [ready, listeners, lookups, announces, listenCalls,
                  \*   destroyCalls]
  pdTracker,      \* its tracker: [torrent, torrentLength, starts, stops]
  pdEmitted,      \* events the PeerDiscovery emitted: [peer, warning, error,
                  \*   dhtAnnounce]
  pdSeen,         \* events its sources delivered: [trackerError, trackerPeer,
                  \*   dhtPeer]
  pdCalls,        \* calls made on it: [setTorrent, stop]
  pdThrown        \* what the last call on it threw, or "none"

pdVars == <<pd, pdDht, pdTracker, pdEmitted, pdSeen, pdCalls, pdThrown>>

clientVars == <<ready, torrentPort, dht, boot, emitted, readyListeners, calls,
                torrents, removing, joins, thrown, returned, lastRatio, teardowns,
                lastPeer>>

\* ------------------------------------------------------------ run-parallel

\* run-parallel's done(): the final callback runs when the last task reports
\* or when a task reports an error, and never twice (cb is cleared).
ParallelFiresOnAny(pending, err, cb) == cb = "armed"
ParallelFiresAgain(pending, err, cb) == pending = 0 \/ err

ParallelFires(pending, err, cb) == (pending = 0 \/ err) /\ cb = "armed"

\* ------------------------------------------------------------------ Torrent

\* new Torrent(torrentId, opts): the entry carries the info hash of the torrent
\* the identifier names (held as the file it is the digest of).  call is the
\* number of the add call that made it, queued whether that call waited for
\* 'ready'.  uploaded and downloaded are its byte counts, 0 at first.
Torrent(id, call, queued) ==
  [file |-> id.file, call |-> call, queued |-> queued,
   uploaded |-> 0, downloaded |-> 0]

infoHash(torrent) == ContentId[torrent.file]

\* -------------------------------------------------------------- Client.get

getFirst(regs, hash) == IF regs = <<>> THEN 0 ELSE 1

\* The place in client.torrents of the first entry with the given info hash;
\* 0 is null.
get(regs, hash) ==
  LET hits == {i \in DOMAIN regs : infoHash(regs[i]) = hash}
  IN IF hits = {} THEN 0 ELSE CHOOSE i \in hits : \A j \in hits : i <= j

\* A splice that takes nothing out.
SpliceNothing(regs, i) == regs

\* A splice that takes out every entry with the info hash of the i-th.
SpliceSame(regs, i) == SelectSeq(regs, LAMBDA t : t.file # regs[i].file)

\* Array.prototype.splice(i, 1)
Splice(regs, i) == SubSeq(regs, 1, i - 1) \o SubSeq(regs, i + 1, Len(regs))

\* ----------------------------------------------------- Client.prototype.add

\* The body of add once the client is ready.
addReady(regs, id, call, queued) == Append(regs, Torrent(id, call, queued))

\* emit('ready'): the listeners run in the order they were registered.
RECURSIVE emitReadyReversed(_, _)
emitReadyReversed(listeners, regs) ==
  IF listeners = <<>> THEN regs
  ELSE addReady(emitReadyReversed(Tail(listeners), regs),
                Head(listeners).id, Head(listeners).call, TRUE)

\* An emit that runs its first listener only.
emitReadyFirstOnly(listeners, regs) ==
  IF listeners = <<>> THEN regs
  ELSE addReady(regs, Head(listeners).id, Head(listeners).call, TRUE)

RECURSIVE emitReady(_, _)
emitReady(listeners, regs) ==
  IF listeners = <<>> THEN regs
  ELSE emitReady(Tail(listeners),
                 addReady(regs, Head(listeners).id, Head(listeners).call, TRUE))

\* self.dht.lookup(torrent.infoHash, ...) at the end of add, if (self.dht).
dhtLookup(d, f) == IF d.exists THEN [d EXCEPT !.lookups[f] = @ + 1] ELSE d

\* The lookups of the add calls that emit('ready') runs.
RECURSIVE dhtLookupEach(_, _)
dhtLookupEach(d, listeners) ==
  IF listeners = <<>> THEN d
  ELSE dhtLookupEach(dhtLookup(d, Head(listeners).id.file), Tail(listeners))

\* Before 'ready', add returns what self.once returns, the client itself; once
\* ready it runs to its end without a return statement.
add(id) ==
  /\ calls < MaxAdds
  /\ calls' = calls + 1
  /\ thrown' = "none"
  /\ returned' = IF ~ready THEN "client" ELSE "undefined"
  /\ IF ~ready
     THEN /\ readyListeners' = Append(readyListeners, [id |-> id, call |-> calls + 1])
          /\ UNCHANGED <<torrents, dht>>
     ELSE /\ torrents' = addReady(torrents, id, calls + 1, FALSE)
          /\ dht' = dhtLookup(dht, id.file)
          /\ UNCHANGED readyListeners
  /\ UNCHANGED <<ready, torrentPort, boot, emitted, removing, joins,
                 lastRatio, teardowns, lastPeer>>

\* ------------------------------------------------- the constructor's tasks

\* A callback that goes on to 'ready' after it emitted 'error'.
bootCallbackNoReturn(err) ==
  /\ ready' = TRUE
  /\ dht' = dhtLookupEach(dht, readyListeners)
  /\ emitted' = IF err THEN [emitted EXCEPT !.error = @ + 1, !.ready = @ + 1]
                ELSE [emitted EXCEPT !.ready = @ + 1]
  /\ readyListeners' = <<>>
  /\ torrents' = emitReady(readyListeners, torrents)

\* The final callback of parallel(tasks, ...) in the constructor.
bootCallback(err) ==
  IF err
  THEN /\ emitted' = [emitted EXCEPT !.error = @ + 1]
       /\ UNCHANGED <<ready, readyListeners, torrents, dht>>
  ELSE /\ ready' = TRUE
       /\ dht' = dhtLookupEach(dht, readyListeners)
       /\ emitted' = [emitted EXCEPT !.ready = @ + 1]
       /\ readyListeners' = <<>>
       /\ torrents' = emitReady(readyListeners, torrents)

\* A task of the constructor calls its cb(err); b is boot with the task marked.
bootTaskDone(b, err) ==
  IF ParallelFires(b.pending - 1, err, b.cb)
  THEN /\ boot' = [b EXCEPT !.pending = @ - 1, !.cb = "called"]
       /\ bootCallback(err)
  ELSE /\ boot' = [b EXCEPT !.pending = @ - 1]
       /\ UNCHANGED <<ready, emitted, readyListeners, torrents, dht>>

\* portfinder.getPort's callback.
portFound(err) ==
  /\ boot.port = "pending"
  /\ torrentPort' = IF err THEN "unset" ELSE "found"
  /\ bootTaskDone([boot EXCEPT !.port = IF err THEN "failed" ELSE "ok"], err)
  /\ UNCHANGED <<calls, removing, joins, thrown, returned, lastRatio,
                 teardowns, lastPeer>>

\* The DHT's 'ready' event.
dhtReady ==
  /\ boot.dht = "pending"
  /\ bootTaskDone([boot EXCEPT !.dht = "ok"], FALSE)
  /\ UNCHANGED <<torrentPort, calls, removing, joins, thrown, returned,
                 lastRatio, teardowns, lastPeer>>

\* parallel([], cb) when it defers its callback to the next tick: no task was
\* scheduled, and the callback runs with no error.
noTasks ==
  /\ boot.port = "none" /\ boot.dht = "none" /\ boot.cb = "armed"
  /\ boot' = [boot EXCEPT !.cb = "called"]
  /\ bootCallback(FALSE)
  /\ UNCHANGED <<torrentPort, calls, removing, joins, thrown, returned,
                 lastRatio, teardowns, lastPeer>>

\* -------------------------------------------------- Client.prototype.remove

\* torrent.destroy(cb) is called on the entry that add call c made.
Destroyed(down, c) ==
  [x \in DOMAIN down \cup {c} |->
     IF x \in DOMAIN down THEN (IF x = c THEN down[x] + 1 ELSE down[x]) ELSE 1]

\* The body of remove on st = [regs, started, thrown, down]: started counts the
\* torrent.destroy(cb) calls made, down is teardowns.
removeBody(st, id) ==
  LET i == get(st.regs, toInfoHashOf[id])
  IN IF i = 0
     THEN [st EXCEPT !.thrown = "NotFound"]
     ELSE [regs |-> Splice(st.regs, i), started |-> st.started + 1,
           thrown |-> "none", down |-> Destroyed(st.down, st.regs[i].call)]

remove(id) ==
  LET st == removeBody([regs |-> torrents, started |-> 0, thrown |-> "none",
                        down |-> teardowns], id)
  IN /\ torrents' = st.regs
     /\ removing' = removing + st.started
     /\ thrown' = st.thrown
     /\ teardowns' = st.down
     /\ UNCHANGED <<ready, torrentPort, dht, boot, emitted, readyListeners, calls,
                    joins, returned, lastRatio, lastPeer>>

\* ------------------------------------------------- Client.prototype.destroy

\* tasks.forEach of parallel: each task calls self.remove(torrent.infoHash, cb),
\* the info hash being the hex string of the entry; an exception ends the loop.
RECURSIVE runTasks(_, _)
runTasks(tasks, st) ==
  IF tasks = <<>> \/ st.thrown # "none" THEN st
  ELSE runTasks(Tail(tasks), removeBody(st, Id("hex", Head(tasks).file)))

destroy ==
  LET st == runTasks(torrents, [regs |-> torrents, started |-> 0, thrown |-> "none",
                                down |-> teardowns])
  IN /\ Len(joins) < MaxDestroys
     /\ teardowns' = st.down
     /\ dht' = IF dht.exists THEN [dht EXCEPT !.destroyCalls = @ + 1] ELSE dht
     /\ torrents' = st.regs
     /\ thrown' = st.thrown
     /\ joins' = Append(joins, [registered |-> Len(torrents),
                                tasks |-> Len(torrents),
                                pending |-> Len(torrents),
                                cb |-> IF torrents = <<>> THEN "called" ELSE "armed",
                                err |-> FALSE,
                                running |-> st.started])
     /\ UNCHANGED <<ready, torrentPort, boot, emitted, readyListeners, calls,
                    removing, returned, lastRatio, lastPeer>>

\* A torrent.destroy(cb) that remove's caller started completes.
removeDone ==
  /\ removing > 0
  /\ removing' = removing - 1
  /\ UNCHANGED <<ready, torrentPort, dht, boot, emitted, readyListeners, calls,
                 torrents, joins, thrown, returned, lastRatio, teardowns, lastPeer>>

\* A torrent.destroy(cb) of the j-th destroy call completes and calls cb(err),
\* run-parallel's done().
torrentDestroyed(j, err) ==
  /\ j \in DOMAIN joins
  /\ joins[j].running > 0
  /\ IF ParallelFires(joins[j].pending - 1, err, joins[j].cb)
     THEN joins' = [joins EXCEPT ![j].running = @ - 1, ![j].pending = @ - 1,
                                 ![j].cb = "called", ![j].err = err]
     ELSE joins' = [joins EXCEPT ![j].running = @ - 1, ![j].pending = @ - 1]
  /\ UNCHANGED <<ready, torrentPort, dht, boot, emitted, readyListeners, calls,
                 torrents, removing, thrown, returned, lastRatio, teardowns,
                 lastPeer>>

\* ------------------------------------------------------- the client's DHT

\* The callback of self.dht.lookup in add, for the torrent f.
dhtLookupDone(f, err) ==
  /\ dht.lookups[f] > 0
  /\ dht' = IF err THEN [dht EXCEPT !.lookups[f] = @ - 1]
            ELSE [dht EXCEPT !.lookups[f] = @ - 1, !.announces = @ + 1]
  /\ UNCHANGED <<ready, torrentPort, boot, emitted, readyListeners, calls, torrents,
                 removing, joins, thrown, returned, lastRatio, lastPeer, teardowns>>

\* The callback of self.dht.announce in add: torrent.emit('announce').
dhtAnnounceDone ==
  /\ dht.announces > 0
  /\ dht' = [dht EXCEPT !.announces = @ - 1]
  /\ emitted' = [emitted EXCEPT !.announce = @ + 1]
  /\ UNCHANGED <<ready, torrentPort, boot, readyListeners, calls, torrents,
                 removing, joins, thrown, returned, lastRatio, lastPeer, teardowns>>

\* The DHT emits 'peer' with the info hash of f, which it is looking up:
\* _onDHTPeer calls addPeer on what get returns, null included.
_onDHTPeer(f) ==
  /\ dht.exists
  /\ dht.destroyCalls = 0
  /\ dht.lookups[f] > 0
  /\ dht.peers < MaxEvents
  /\ dht' = [dht EXCEPT !.peers = @ + 1]
  /\ LET i == get(torrents, toInfoHashOf[Id("hex", f)])
     IN /\ lastPeer' = [seen |-> TRUE, file |-> f,
                        to |-> IF i = 0 THEN 0 ELSE torrents[i].call]
        /\ thrown' = IF i = 0 THEN "TypeError" ELSE "none"
  /\ UNCHANGED <<ready, torrentPort, boot, emitted, readyListeners, calls, torrents,
                 removing, joins, returned, lastRatio, teardowns>>

\* ----------------------------------------------------------- client.ratio

\* A JavaScript number that is a quotient of byte counts, as the fraction in
\* lowest terms [n, d]; 0/0 is NaN, [0, 0], and x/0 is Infinity, [1, 0].
RECURSIVE Gcd(_, _)
Gcd(a, b) == IF b = 0 THEN a ELSE Gcd(b, a % b)

JsNumber(n) == [n |-> n, d |-> 1]

JsDivide(a, b) ==
  IF b = 0 THEN [n |-> IF a = 0 THEN 0 ELSE 1, d |-> 0]
  ELSE Let(LAMBDA g : [n |-> a \div g, d |-> b \div g], Gcd(a, b))

\* Array.prototype.reduce(function (total, torrent) {...}, 0) over a byte count.
RECURSIVE ReduceUploaded(_, _)
ReduceUploaded(regs, total) ==
  IF regs = <<>> THEN total
  ELSE ReduceUploaded(Tail(regs), total + Head(regs).uploaded)

RECURSIVE ReduceDownloaded(_, _)
ReduceDownloaded(regs, total) ==
  IF regs = <<>> THEN total
  ELSE ReduceDownloaded(Tail(regs), total + Head(regs).downloaded)

\* The getter without its guard: uploaded / downloaded whatever downloaded is.
ratioUnguarded(regs) ==
  JsDivide(ReduceUploaded(regs, 0), ReduceDownloaded(regs, 0))

\* The getter of client.ratio.
ratio(regs) ==
  LET uploaded == ReduceUploaded(regs, 0)
      downloaded == ReduceDownloaded(regs, 0)
  IN IF downloaded = 0 THEN JsNumber(0) ELSE JsDivide(uploaded, downloaded)

\* A read of client.ratio.
readRatio ==
  /\ lastRatio' = [read |-> TRUE, value |-> ratio(torrents)]
  /\ UNCHANGED <<ready, torrentPort, dht, boot, emitted, readyListeners, calls,
                 torrents, removing, joins, thrown, returned, teardowns, lastPeer>>

\* The byte counts a torrent may show: those of the worked example.
Samples ==
  {[uploaded |-> 0, downloaded |-> 0],
   [uploaded |-> 100, downloaded |-> 200],
   [uploaded |-> 50, downloaded |-> 0]}

\* The swarm of the i-th entry moves bytes: its counts grow to those of sample.
transfer(i, sample) ==
  /\ i \in DOMAIN torrents
  /\ sample.uploaded >= torrents[i].uploaded
  /\ sample.downloaded >= torrents[i].downloaded
  /\ sample.uploaded + sample.downloaded >
       torrents[i].uploaded + torrents[i].downloaded
  /\ torrents' = [torrents EXCEPT ![i].uploaded = sample.uploaded,
                                  ![i].downloaded = sample.downloaded]
  /\ UNCHANGED <<ready, torrentPort, dht, boot, emitted, readyListeners, calls,
                 removing, joins, thrown, returned, lastRatio, teardowns, lastPeer>>

\* ------------------------------------------------------ Client.toInfoHash

resolve(id) ==
  /\ resolved' = [done |-> TRUE, id |-> id, hash |-> toInfoHashOf[id]]
  /\ UNCHANGED clientVars

\* ----------------------------------------------------------- PeerDiscovery

\* new PeerDiscovery(opts): opts.peerId given or not; opts.dht absent (the
\* default true), false, a DHT handle, or null; opts.tracker absent (the default
\* true) or false; opts.torrentPort given or not.  A handle may be ready already.
\* The boolean true is truthy, so _createDHT takes it for an external DHT and
\* calls true.on, which is not a function.
PeerDiscovery(hasPeerId, dhtOpt, trackerOpt, hasPort, handleReady) ==
  LET own == dhtOpt = "null"
      made == hasPeerId /\ dhtOpt # "true"
  IN /\ pd = [new |-> IF ~hasPeerId THEN "peerId required"
                      ELSE IF dhtOpt = "true" THEN "TypeError" ELSE "ok",
               dht |-> IF ~hasPeerId THEN dhtOpt
                       ELSE IF own THEN "own" ELSE dhtOpt,
               externalDHT |-> hasPeerId /\ dhtOpt \in {"true", "handle"},
               tracker |-> IF trackerOpt THEN "true" ELSE "false",
               torrentPort |-> hasPort,
               infoHash |-> "unset",
               torrent |-> "unset"]
     /\ pdDht = [ready |-> made /\ dhtOpt = "handle" /\ handleReady,
                  listeners |-> 0, lookups |-> 0, announces |-> 0,
                  listenCalls |-> IF made /\ own THEN 1 ELSE 0,
                  destroyCalls |-> 0]
     /\ pdTracker = [torrent |-> "none", torrentLength |-> "unset",
                      starts |-> 0, stops |-> 0]
     /\ pdEmitted = [peer |-> 0, warning |-> 0, error |-> 0, dhtAnnounce |-> 0]
     /\ pdSeen = [trackerError |-> 0, trackerPeer |-> 0, dhtPeer |-> 0]
     /\ pdCalls = [setTorrent |-> 0, stop |-> 0]
     /\ pdThrown = "none"

\* self.dht is a DHT object: the 'peer' listener of _createDHT is on it.
HasDht == pd.dht \in {"handle", "own"}
\* setTorrent without its test for a tracker that exists already.
HasTrackerNever == FALSE
\* self.tracker is a Tracker object, no longer the option.
HasTracker == pd.tracker = "object"

\* _onPeer: a 'peer' of either source is emitted again as 'peer'.
_onPeer(em) == [em EXCEPT !.peer = @ + 1]

\* The tracker 'error' listener made fatal: 'error' instead of 'warning'.
onTrackerErrorFatal(em) == [em EXCEPT !.error = @ + 1]
\* The tracker 'error' listener of _createTracker.
onTrackerError(em) == [em EXCEPT !.warning = @ + 1]

\* setTorrent(torrent), torrent a parsed torrent ("torrent") or a bare info
\* hash ("infoHash").  A bare info hash is a hex string: its length is HexLen.
setTorrent(arg) ==
  /\ pd.new = "ok"
  /\ pdCalls.setTorrent < MaxCalls
  /\ pdCalls' = [pdCalls EXCEPT !.setTorrent = @ + 1]
  /\ pdThrown' = "none"
  /\ LET torrent == IF arg = "torrent" THEN "set" ELSE pd.torrent
         create == ~HasTracker /\ pd.tracker # "false"
     IN /\ pd' = [pd EXCEPT !.torrent = torrent, !.infoHash = "set",
                            !.tracker = IF create THEN "object" ELSE @]
        /\ pdTracker' =
             IF HasTracker
             THEN [pdTracker EXCEPT
                     !.torrentLength = IF arg = "torrent" THEN "torrent.length"
                                       ELSE "string.length"]
             ELSE IF create
             THEN [pdTracker EXCEPT
                     !.torrent = IF torrent = "set" THEN "torrent" ELSE "infoHash",
                     !.starts = @ + 1]
             ELSE pdTracker
  /\ pdDht' = IF ~HasDht THEN pdDht
              ELSE IF pdDht.ready THEN [pdDht EXCEPT !.lookups = @ + 1]
              ELSE [pdDht EXCEPT !.listeners = @ + 1]
  /\ UNCHANGED <<pdEmitted, pdSeen>>

\* The DHT becomes ready: every 'ready' listener setTorrent left starts a lookup.
pdDhtReady ==
  /\ pd.new = "ok"
  /\ HasDht
  /\ ~pdDht.ready
  /\ pdDht.destroyCalls = 0
  /\ pdDht' = [pdDht EXCEPT !.ready = TRUE, !.lookups = @ + pdDht.listeners]
  /\ UNCHANGED <<pd, pdTracker, pdEmitted, pdSeen, pdCalls, pdThrown>>

\* The callback of dht.lookup without its test of self.torrentPort.
lookupDoneAnyPort(err) ==
  /\ pdDht.lookups > 0
  /\ pdDht' = IF err
              THEN [pdDht EXCEPT !.lookups = @ - 1]
              ELSE [pdDht EXCEPT !.lookups = @ - 1, !.announces = @ + 1]
  /\ UNCHANGED <<pd, pdTracker, pdEmitted, pdSeen, pdCalls, pdThrown>>

\* The callback of dht.lookup in _dhtLookupAndAnnounce.
lookupDone(err) ==
  /\ pdDht.lookups > 0
  /\ pdDht' = IF err \/ ~pd.torrentPort
              THEN [pdDht EXCEPT !.lookups = @ - 1]
              ELSE [pdDht EXCEPT !.lookups = @ - 1, !.announces = @ + 1]
  /\ UNCHANGED <<pd, pdTracker, pdEmitted, pdSeen, pdCalls, pdThrown>>

\* The callback of dht.announce in _dhtLookupAndAnnounce.
announceDone ==
  /\ pdDht.announces > 0
  /\ pdDht' = [pdDht EXCEPT !.announces = @ - 1]
  /\ pdEmitted' = [pdEmitted EXCEPT !.dhtAnnounce = @ + 1]
  /\ UNCHANGED <<pd, pdTracker, pdSeen, pdCalls, pdThrown>>

\* The DHT emits 'peer'; a DHT that was destroyed emits nothing.
dhtPeer ==
  /\ pd.new = "ok"
  /\ HasDht
  /\ pdDht.destroyCalls = 0
  /\ pdSeen.dhtPeer < MaxEvents
  /\ pdSeen' = [pdSeen EXCEPT !.dhtPeer = @ + 1]
  /\ pdEmitted' = _onPeer(pdEmitted)
  /\ UNCHANGED <<pd, pdDht, pdTracker, pdCalls, pdThrown>>

\* The tracker emits 'peer'.
trackerPeer ==
  /\ HasTracker
  /\ pdSeen.trackerPeer < MaxEvents
  /\ pdSeen' = [pdSeen EXCEPT !.trackerPeer = @ + 1]
  /\ pdEmitted' = _onPeer(pdEmitted)
  /\ UNCHANGED <<pd, pdDht, pdTracker, pdCalls, pdThrown>>

\* The tracker emits 'error'.
trackerError ==
  /\ HasTracker
  /\ pdSeen.trackerError < MaxEvents
  /\ pdSeen' = [pdSeen EXCEPT !.trackerError = @ + 1]
  /\ pdEmitted' = onTrackerError(pdEmitted)
  /\ UNCHANGED <<pd, pdDht, pdTracker, pdCalls, pdThrown>>

\* stop().  While self.tracker is still the option true, true.stop is not a
\* function and the call throws before it reaches the DHT.
stop ==
  /\ pd.new = "ok"
  /\ pdCalls.stop < MaxCalls
  /\ pdCalls' = [pdCalls EXCEPT !.stop = @ + 1]
  /\ IF pd.tracker = "true"
     THEN /\ pdThrown' = "TypeError"
          /\ UNCHANGED <<pdTracker, pdDht>>
     ELSE /\ pdThrown' = "none"
          /\ pdTracker' = IF HasTracker THEN [pdTracker EXCEPT !.stops = @ + 1]
                          ELSE pdTracker
          /\ pdDht' = IF HasDht /\ ~pd.externalDHT
                      THEN [pdDht EXCEPT !.destroyCalls = @ + 1]
                      ELSE pdDht
  /\ UNCHANGED <<pd, pdEmitted, pdSeen>>

\* ------------------------------------------------------------ specification

vars == <<ready, torrentPort, dht, boot, emitted, readyListeners, calls, torrents,
          removing, joins, thrown, returned, lastRatio, teardowns, lastPeer,
          resolved, pd, pdDht, pdTracker, pdEmitted, pdSeen, pdCalls, pdThrown>>

\* new Client(opts): opts.torrentPort given or not, opts.dht true or false.  With
\* no task to run, run-parallel calls back at once or on the next tick.
Client(fixedPort, useDht, atOnce) ==
  LET n == (IF fixedPort THEN 0 ELSE 1) + (IF useDht THEN 1 ELSE 0)
  IN /\ torrentPort = IF fixedPort THEN "fixed" ELSE "unset"
     /\ dht = [exists |-> useDht, destroyCalls |-> 0,
                lookups |-> [f \in Files |-> 0], announces |-> 0, peers |-> 0]
     /\ boot = [port |-> IF fixedPort THEN "none" ELSE "pending",
                dht |-> IF useDht THEN "pending" ELSE "none",
                pending |-> n,
                cb |-> IF n = 0 /\ atOnce THEN "called" ELSE "armed"]
     /\ ready = (n = 0 /\ atOnce)
     /\ emitted = [ready |-> IF n = 0 /\ atOnce THEN 1 ELSE 0, error |-> 0,
                    announce |-> 0]
     /\ readyListeners = <<>>
     /\ calls = 0
     /\ torrents = <<>>
     /\ removing = 0
     /\ joins = <<>>
     /\ thrown = "none"
     /\ returned = "none"
     /\ teardowns = <<>>
     /\ lastPeer = [seen |-> FALSE, file |-> 1, to |-> 0]
     /\ lastRatio = [read |-> FALSE, value |-> JsNumber(0)]

Unresolved == [done |-> FALSE, id |-> Id("other", 1), hash |-> Null]

\* The specifications of the Client hold one PeerDiscovery that nothing calls.
Idle == PeerDiscovery(TRUE, "false", FALSE, FALSE, FALSE)

Init ==
  /\ \E fixedPort \in BOOLEAN, useDht \in BOOLEAN, atOnce \in BOOLEAN :
       Client(fixedPort, useDht, atOnce)
  /\ resolved = Unresolved
  /\ Idle

Add == \E id \in AddIds : add(id) /\ UNCHANGED <<resolved, pdVars>>
Remove == \E id \in RemoveIds : remove(id) /\ UNCHANGED <<resolved, pdVars>>
Destroy == destroy /\ UNCHANGED <<resolved, pdVars>>
PortFound == \E err \in BOOLEAN : portFound(err) /\ UNCHANGED <<resolved, pdVars>>
DhtReady == dhtReady /\ UNCHANGED <<resolved, pdVars>>
NoTasks == noTasks /\ UNCHANGED <<resolved, pdVars>>
RemoveDone == removeDone /\ UNCHANGED <<resolved, pdVars>>
TorrentDestroyed ==
  \E j \in DOMAIN joins, err \in BOOLEAN : torrentDestroyed(j, err) /\ UNCHANGED <<resolved, pdVars>>

Next ==
  \/ Add
  \/ Remove
  \/ Destroy
  \/ PortFound
  \/ DhtReady
  \/ NoTasks
  \/ RemoveDone
  \/ TorrentDestroyed

Spec == Init /\ [][Next]_vars

\* The same client under Node's event loop: a callback run-parallel deferred to
\* the next tick does run.  Whether portfinder and the DHT ever answer is left
\* open.
SpecLive == Init /\ [][Next]_vars /\ WF_vars(NoTasks)

\* Client.toInfoHash and get on their own: a client with a fixed port and no
\* DHT, whose registry add and remove fill, and any identifier resolved.
Resolve == \E id \in Ids : resolve(id) /\ UNCHANGED pdVars

InitResolve ==
  /\ \E atOnce \in BOOLEAN : Client(TRUE, FALSE, atOnce)
  /\ resolved = Unresolved
  /\ Idle

NextResolve ==
  \/ Resolve
  \/ Add
  \/ Remove
  \/ NoTasks
  \/ RemoveDone

SpecResolve == InitResolve /\ [][NextResolve]_vars

\* The client's DHT traffic: a client with a fixed port and a DHT, whose
\* torrents are added and removed while the DHT looks up, announces and finds
\* peers.
InitDht ==
  /\ Client(TRUE, TRUE, FALSE)
  /\ resolved = Unresolved
  /\ Idle

DhtLookupDone ==
  \E f \in Files, err \in BOOLEAN :
    dhtLookupDone(f, err) /\ UNCHANGED <<resolved, pdVars>>
DhtAnnounceDone == dhtAnnounceDone /\ UNCHANGED <<resolved, pdVars>>
OnDHTPeer == \E f \in Files : _onDHTPeer(f) /\ UNCHANGED <<resolved, pdVars>>

NextDht ==
  \/ Add
  \/ Remove
  \/ DhtReady
  \/ DhtLookupDone
  \/ DhtAnnounceDone
  \/ OnDHTPeer

SpecDht == InitDht /\ [][NextDht]_vars

\* client.ratio: a ready client whose torrents are added, removed and move bytes,
\* and whose ratio is read.
InitRatio ==
  /\ Client(TRUE, FALSE, TRUE)
  /\ resolved = Unresolved
  /\ Idle

Transfer ==
  \E i \in DOMAIN torrents, sample \in Samples :
    transfer(i, sample) /\ UNCHANGED <<resolved, pdVars>>
ReadRatio == readRatio /\ UNCHANGED <<resolved, pdVars>>

NextRatio ==
  \/ Add
  \/ Remove
  \/ Transfer
  \/ ReadRatio

SpecRatio == InitRatio /\ [][NextRatio]_vars

\* One PeerDiscovery, next to a client that nothing calls.
DhtOpts == {"true", "false", "handle", "null"}

InitPD ==
  /\ \E hasPeerId \in BOOLEAN, dhtOpt \in DhtOpts, trackerOpt \in BOOLEAN,
        hasPort \in BOOLEAN, handleReady \in BOOLEAN :
       PeerDiscovery(hasPeerId, dhtOpt, trackerOpt, hasPort, handleReady)
  /\ Client(TRUE, FALSE, TRUE)
  /\ resolved = Unresolved

SetTorrent ==
  \E arg \in {"torrent", "infoHash"} : setTorrent(arg) /\ UNCHANGED <<clientVars, resolved>>
PdDhtReady == pdDhtReady /\ UNCHANGED <<clientVars, resolved>>
LookupDone == \E err \in BOOLEAN : lookupDone(err) /\ UNCHANGED <<clientVars, resolved>>
AnnounceDone == announceDone /\ UNCHANGED <<clientVars, resolved>>
DhtPeer == dhtPeer /\ UNCHANGED <<clientVars, resolved>>
TrackerPeer == trackerPeer /\ UNCHANGED <<clientVars, resolved>>
TrackerError == trackerError /\ UNCHANGED <<clientVars, resolved>>
Stop == stop /\ UNCHANGED <<clientVars, resolved>>

NextPD ==
  \/ SetTorrent
  \/ PdDhtReady
  \/ LookupDone
  \/ AnnounceDone
  \/ DhtPeer
  \/ TrackerPeer
  \/ TrackerError
  \/ Stop

SpecPD == InitPD /\ [][NextPD]_vars

\* ------------------------------------------------------------------ claims

\* The entries of the registry that name torrent f.
Registered(f) == {i \in DOMAIN torrents : torrents[i].file = f}

\* An identifier that names no entry of the registry.
NotRegistered(id) == id.kind \in {"garbage", "other"} \/ Registered(id.file) = {}

\* C1: the add calls issued before readiness are applied, when the client
\* becomes ready, in the order they were issued: the i-th entry of the registry
\* is the one the i-th call asked for, none is dropped, equal requests are not
\* merged.
C1_FifoReplay ==
  [][(~ready /\ ready') =>
       /\ Len(readyListeners) = calls
       /\ Len(torrents') = calls
       /\ \A i \in 1..calls :
            /\ readyListeners[i].call = i
            /\ torrents'[i].call = i
            /\ torrents'[i].file = readyListeners[i].id.file]_vars

\* Three queued calls, the first and the third for the same torrent, replayed.
C1_Witness ==
  /\ ready
  /\ Len(torrents) = 3
  /\ \A i \in 1..3 : torrents[i].queued
  /\ torrents[1].file = torrents[3].file
  /\ torrents[2].file # torrents[1].file

TasksSucceeded == boot.port \in {"none", "ok"} /\ boot.dht \in {"none", "ok"}

\* C2: the client is ready only if every scheduled task (port, DHT) reported
\* success, and once they all have, 'ready' has been emitted exactly once.
C2_ReadyAfterAllTasks ==
  /\ ready => TasksSucceeded
  /\ ready <=> emitted.ready = 1
  /\ emitted.ready <= 1
  /\ (TasksSucceeded /\ boot.cb = "called") => ready
  /\ (TasksSucceeded /\ (boot.port = "ok" \/ boot.dht = "ok")) => ready

\* Both tasks were scheduled and both succeeded.
C2_Witness == ready /\ boot.port = "ok" /\ boot.dht = "ok"

\* C3: once a task has reported failure, 'error' has been emitted and the
\* client is not ready, whatever the other task did before or does later.
C3_FailureBlocksReady ==
  boot.port = "failed" => (emitted.error >= 1 /\ ~ready /\ emitted.ready = 0)

\* The port task failed and the DHT task succeeded.
C3_Witness == boot.port = "failed" /\ boot.dht = "ok" /\ emitted.error = 1

\* C4: destroy's callback is called only after every teardown it started has
\* finished.
C4_CompletionAfterAllTasks ==
  \A j \in DOMAIN joins : joins[j].cb = "called" => joins[j].running = 0

\* C5: the teardown of the DHT the client constructed is invoked exactly once,
\* during destroy, however often destroy is called.
C5_DhtClosedOnce ==
  /\ joins = <<>> => dht.destroyCalls = 0
  /\ (joins # <<>> /\ dht.exists) => dht.destroyCalls = 1
  /\ ~dht.exists => dht.destroyCalls = 0

\* C6: destroy joins one task for each entry registered at the call, and one
\* more for the DHT when the client owns one.
C6_OneTaskPerResource ==
  \A j \in DOMAIN joins :
    joins[j].tasks = joins[j].registered + (IF dht.exists THEN 1 ELSE 0)

\* C7: remove of an identifier that names no entry of the registry raises the
\* not-found error, leaves the registry as it was and starts no teardown.  (A
\* remove is a step that leaves the add calls, the bootstrap, the destroy calls
\* and the DHT as they were.)
C7_RemoveUnknown ==
  [][(calls' = calls /\ boot' = boot /\ joins' = joins /\ dht' = dht) =>
       \/ thrown' = "NotFound" /\ torrents' = torrents /\ removing' = removing
       \/ \A id \in RemoveIds : ~(NotRegistered(id) /\ remove(id))]_vars

\* A remove failed while the registry holds entries.
C7_Witness == thrown = "NotFound" /\ torrents # <<>>

\* C8: every tracker 'error' a PeerDiscovery receives is emitted as one
\* 'warning' and never as 'error'; it stops neither the tracker nor the DHT, which
\* only stop calls do; and every 'peer' of the DHT or of the tracker is emitted
\* again as 'peer', whatever number of tracker errors came before.
C8_TrackerErrorIsWarning ==
  /\ pdEmitted.warning = pdSeen.trackerError
  /\ pdEmitted.error = 0
  /\ pdEmitted.peer = pdSeen.dhtPeer + pdSeen.trackerPeer
  /\ pdTracker.stops <= pdCalls.stop
  /\ pdDht.destroyCalls <= pdCalls.stop

\* Tracker and DHT both at work, never stopped: the tracker failed MaxEvents
\* times and the DHT found a peer, which was forwarded.
C8_Witness ==
  /\ HasTracker
  /\ HasDht
  /\ pdCalls.stop = 0
  /\ pdSeen.trackerError = MaxEvents
  /\ pdSeen.dhtPeer >= 1
  /\ pdEmitted.peer >= 1
  /\ pdEmitted.warning = MaxEvents

\* C9: the client never leaves Ready for Bootstrapping, and once destroy has
\* been called the registry gains no entry.
C9_NoAddAfterDestroy ==
  [][/\ ready => ready'
     /\ joins # <<>> => Len(torrents') <= Len(torrents)]_vars

\* C10: the five forms of one torrent (hex string, 20-byte Buffer, magnet URI,
\* .torrent file, parsed torrent) resolve to the same info hash, that of the
\* torrent, and get finds with each of them the same entry: the first one
\* registered for the torrent, or none.
C10_SameContentId ==
  /\ (resolved.done /\ resolved.id.kind \in Kinds) =>
       resolved.hash = ContentId[resolved.id.file]
  /\ \A f \in Files, k \in Kinds :
       get(torrents, toInfoHashOf[Id(k, f)]) =
         (IF Registered(f) = {} THEN 0
          ELSE CHOOSE i \in Registered(f) : \A j \in Registered(f) : i <= j)

\* A 20-byte Buffer was resolved, and names the second entry of the registry.
C10_Witness ==
  /\ resolved.done
  /\ resolved.id.kind = "buffer"
  /\ get(torrents, resolved.hash) = 2

\* C11: add returns to its caller the torrent entry it created, whether the
\* call ran at once or waited for 'ready'.
C11_AddReturnsEntry == calls > 0 => returned = "torrent"

\* The sum of a byte count over the entries of the registry.
RECURSIVE TotalOver(_, _)
TotalOver(S, count) ==
  IF S = {} THEN 0
  ELSE LET i == CHOOSE x \in S : TRUE
       IN torrents[i][count] + TotalOver(S \ {i}, count)

\* C12: client.ratio is 0 when the torrents of the registry have downloaded
\* nothing, and otherwise the quotient of the bytes they uploaded by the bytes
\* they downloaded, as a fraction in lowest terms.
C12_Ratio ==
  LET up == TotalOver(DOMAIN torrents, "uploaded")
      down == TotalOver(DOMAIN torrents, "downloaded")
      r == ratio(torrents)
  IN /\ down = 0 => r = [n |-> 0, d |-> 1]
     /\ down # 0 => (r.d > 0 /\ r.n * down = up * r.d)
     /\ Gcd(r.n, r.d) = 1

\* The worked example: three entries with uploaded 0, 100, 50 and downloaded
\* 0, 200, 0, and the ratio read is 150/200 = 3/4.
C12_Witness ==
  /\ Len(torrents) = 3
  /\ <<torrents[1].uploaded, torrents[2].uploaded, torrents[3].uploaded>> = <<0, 100, 50>>
  /\ <<torrents[1].downloaded, torrents[2].downloaded, torrents[3].downloaded>> = <<0, 200, 0>>
  /\ lastRatio = [read |-> TRUE, value |-> [n |-> 3, d |-> 4]]

\* C13: once stop() has been called, the PeerDiscovery issues no DHT announce
\* and emits no 'dhtAnnounce': the callback of a lookup, or of an announce, that
\* was in flight at the call is ignored.
C13_NoAnnounceAfterStop ==
  [][pdCalls.stop > 0 =>
       /\ pdDht'.announces <= pdDht.announces
       /\ pdEmitted'.dhtAnnounce = pdEmitted.dhtAnnounce]_vars

\* C14: once stop() has been called, the PeerDiscovery emits no 'peer': a
\* 'peer' of the DHT or of the tracker that comes afterwards is not forwarded.
C14_NoPeerAfterStop ==
  [][pdCalls.stop > 0 => pdEmitted'.peer = pdEmitted.peer]_vars

\* C15: a DHT lookup is issued only when the DHT is ready and the info hash and
\* the listen port are both known, and an announce only with the listen port
\* known and by a lookup that completed.
C15_LookupNeedsPort ==
  [][/\ pdDht'.lookups > pdDht.lookups =>
          (pdDht'.ready /\ pd'.infoHash = "set" /\ pd'.torrentPort)
     /\ pdDht'.announces > pdDht.announces =>
          (pd.torrentPort /\ pdDht'.lookups = pdDht.lookups - 1)]_vars

\* C15, amended: a DHT lookup is issued only when the DHT is ready and
\* setTorrent has set the info hash, the listen port known or not; an announce is
\* issued only with the listen port known, and only by the callback of a lookup
\* that completed without error.
C15_LookupWhenReady ==
  [][/\ pdDht'.lookups > pdDht.lookups =>
          (pdDht'.ready /\ pd'.infoHash = "set" /\ pdCalls'.setTorrent >= 1)
     /\ pdDht'.announces > pdDht.announces =>
          (pd.torrentPort /\ lookupDone(FALSE))]_vars

\* With the listen port known, one lookup was announced and the announce
\* completed, and a second lookup is in flight.
C15_Witness ==
  /\ pd.torrentPort
  /\ pdEmitted.dhtAnnounce >= 1
  /\ pdDht.lookups >= 1

\* C16: a PeerDiscovery made with the DHT enabled by the flag true holds a DHT
\* of its own in place of the flag (unless the missing peerId refused the
\* construction); a DHT of its own was started listening and is not external;
\* and a PeerDiscovery is external exactly when a handle was supplied.
C16_FlagMakesOwnDht ==
  /\ pd.dht = "true" => pd.new = "peerId required"
  /\ pd.dht = "own" => (pd.new = "ok" /\ ~pd.externalDHT /\ pdDht.listenCalls = 1)
  /\ pd.new = "ok" => (pd.externalDHT <=> pd.dht = "handle")

\* C17: over any sequence of setTorrent calls at most one tracker is
\* constructed and started: the first call makes it when the tracker is enabled,
\* a later call sets the torrent length of the tracker that exists, and with the
\* tracker disabled none is ever made.
C17_OneTracker ==
  /\ pdTracker.starts <= 1
  /\ pd.tracker = "false" => pdTracker.starts = 0
  /\ pd.tracker = "object" <=> pdTracker.starts = 1
  /\ (pdCalls.setTorrent >= 1 /\ pd.tracker # "false") => pdTracker.starts = 1
  /\ pdCalls.setTorrent <= 1 => pdTracker.torrentLength = "unset"
  /\ (pdCalls.setTorrent >= 2 /\ pdTracker.starts = 1) =>
       pdTracker.torrentLength # "unset"

\* setTorrent with the bare info hash, then with the parsed torrent: one
\* tracker, made from the info hash, its length set by the second call.
C17_Witness ==
  /\ pdCalls.setTorrent = 2
  /\ pdTracker.starts = 1
  /\ pdTracker.torrent = "infoHash"
  /\ pdTracker.torrentLength = "torrent.length"

\* C18: every torrent entry is made by one add call and appears once in the
\* registry, and torrent.destroy, which stops its discovery, is called on it at
\* most once, whatever the order of add, remove and destroy calls.
C18_StoppedOnce ==
  /\ \A c \in DOMAIN teardowns : teardowns[c] = 1
  /\ \A i, j \in DOMAIN torrents : torrents[i].call = torrents[j].call => i = j
  /\ \A i \in DOMAIN torrents : torrents[i].call \notin DOMAIN teardowns

\* An entry was removed by remove, another by a first destroy call, and destroy
\* was called again.
C18_Witness ==
  /\ Len(joins) = 2
  /\ joins[1].registered >= 1
  /\ joins[2].registered = 0
  /\ Cardinality(DOMAIN teardowns) > joins[1].registered

\* C19: a 'peer' of the client's DHT is passed to the registered torrent with
\* its info hash; one for an info hash that no registered torrent has raises no
\* error, changes no registry and reaches no torrent.
C19_UnknownPeerDropped ==
  [][\A f \in Files :
       _onDHTPeer(f) =>
         /\ thrown' = "none"
         /\ torrents' = torrents
         /\ IF Registered(f) = {} THEN lastPeer'.to = 0
            ELSE \E i \in Registered(f) : torrents[i].call = lastPeer'.to]_vars

\* C20: stop() raises no error in any state of a PeerDiscovery: with the
\* tracker enabled and setTorrent not yet called, with the tracker created, with
\* the DHT disabled, owned or external, and after an earlier stop.
C20_StopNeverThrows ==
  [][pdCalls'.stop > pdCalls.stop => pdThrown' = "none"]_vars

\* C21: once a task of the constructor has failed, no add call is applied: the
\* registry is empty, no entry was made or torn down, and every add call issued
\* so far, before the failure or after it, is still waiting for 'ready',
\* whatever the other task and later calls do.
C21_FailureKeepsQueue ==
  boot.port = "failed" =>
    /\ torrents = <<>>
    /\ teardowns = <<>>
    /\ Len(readyListeners) = calls
    /\ \A i \in DOMAIN readyListeners : readyListeners[i].call = i

\* The port task failed, the DHT task succeeded, and add calls are waiting.
C21_Witness ==
  /\ boot.port = "failed"
  /\ boot.dht = "ok"
  /\ Len(readyListeners) >= 2
  /\ returned = "client"

\* The add call c waits for 'ready'; the entry it asked for is in the registry.
Queued(c) == \E i \in DOMAIN readyListeners : readyListeners[i].call = c
Applied(c) == \E i \in DOMAIN torrents : torrents[i].call = c /\ torrents[i].queued

\* C22: if every task the constructor scheduled reports success at some time
\* (at once when none was scheduled), the client becomes ready at some time
\* with no add call left waiting; and an add call leaves the wait for 'ready'
\* only by being applied to the registry, so each of them is applied by then.
C22_EventuallyReady ==
  /\ <>TasksSucceeded => <>(ready /\ readyListeners = <<>>)
  /\ [][\A c \in 1..MaxAdds :
          (Queued(c) /\ ~Queued(c)') => (ready' /\ Applied(c)')]_vars

\* No task was scheduled, the callback came on a later tick, and two add calls
\* that waited for it were applied.
C22_Witness ==
  /\ ready
  /\ boot.port = "none" /\ boot.dht = "none"
  /\ Applied(1) /\ Applied(2)

\* C23: a destroy call takes every entry out of the registry before it
\* returns, entries with equal info hashes included, and raises nothing; and
\* until an add call is made or applied the registry stays empty, so it is
\* empty when the teardowns complete and destroy's callback is called.
C23_DestroyEmptiesRegistry ==
  [][/\ Len(joins') > Len(joins) => (torrents' = <<>> /\ thrown' = "none")
     /\ (torrents = <<>> /\ calls' = calls /\ ready' = ready) => torrents' = <<>>]_vars

\* A destroy of a registry of three entries, two of them for the same torrent,
\* has called back; every teardown succeeded and the registry is empty.
C23_Witness ==
  /\ Len(joins) = 1
  /\ joins[1].registered = 3
  /\ joins[1].cb = "called" /\ ~joins[1].err /\ joins[1].running = 0
  /\ calls = 3
  /\ torrents = <<>>

====
